---- MODULE Spec2Model ----
(***************************************************************************)
(* Model of the Resume detail view (app/routes/resume.tsx): the payload    *)
(* normaliser makeBlobFromPossible, the asynchronous loadResume chain and  *)
(* the effect cleanup that revokes the object URLs the loads created.      *)
(* Text is a sequence of one-character strings, binary content a sequence  *)
(* of bytes 0..255.                                                         *)
(***************************************************************************)
EXTENDS Integers, Sequences, FiniteSets, TLC

\* ------------------------------------------------------------------------
\* Bounds
\* ------------------------------------------------------------------------
\* number of times the load effect runs in one view instance
MaxLoads == 2
\* longest byte content the normaliser inputs are generated from
MaxBytes == 2

\* ------------------------------------------------------------------------
\* Text helpers (String.prototype.includes / split, atob)
\* ------------------------------------------------------------------------
Marker == <<"b","a","s","e","6","4",",">>

B64Alphabet ==
  <<"A","B","C","D","E","F","G","H","I","J","K","L","M","N","O","P",
    "Q","R","S","T","U","V","W","X","Y","Z","a","b","c","d","e","f",
    "g","h","i","j","k","l","m","n","o","p","q","r","s","t","u","v",
    "w","x","y","z","0","1","2","3","4","5","6","7","8","9","+","/">>

B64Chars == {B64Alphabet[i] : i \in 1..64}

B64Value(c) == (CHOOSE i \in 1..64 : B64Alphabet[i] = c) - 1

AsciiWhitespace == {" "}

\* position of the first occurrence of m in s, 0 when there is none
IndexOf(s, m) ==
  LET hits == {i \in 1..(Len(s) - Len(m) + 1) : SubSeq(s, i, i + Len(m) - 1) = m}
  IN IF hits = {} THEN 0 ELSE CHOOSE i \in hits : \A j \in hits : i <= j

Includes(s, m) == IndexOf(s, m) # 0

\* s.split(m)[1] for a text s that includes m: the piece between the first
\* occurrence of m and the next one (or the end of the text)
SplitSecond(s, m) ==
  LET first == IndexOf(s, m)
      rest  == SubSeq(s, first + Len(m), Len(s))
      nxt   == IndexOf(rest, m)
  IN IF nxt = 0 THEN rest ELSE SubSeq(rest, 1, nxt - 1)

RECURSIVE StripWhitespace(_)
StripWhitespace(s) ==
  IF s = <<>> THEN <<>>
  ELSE IF Head(s) \in AsciiWhitespace THEN StripWhitespace(Tail(s))
       ELSE <<Head(s)>> \o StripWhitespace(Tail(s))

\* forgiving-base64: drop one or two trailing "=" of a text whose length is
\* a multiple of four
StripPadding(s) ==
  IF Len(s) % 4 = 0 /\ Len(s) >= 1 /\ s[Len(s)] = "="
  THEN IF Len(s) >= 2 /\ s[Len(s) - 1] = "="
       THEN SubSeq(s, 1, Len(s) - 2)
       ELSE SubSeq(s, 1, Len(s) - 1)
  ELSE s

\* the code units of the binary string the base64 digits d stand for
RECURSIVE DecodeDigits(_)
DecodeDigits(d) ==
  IF Len(d) >= 4 THEN
    LET n == B64Value(d[1]) * 262144 + B64Value(d[2]) * 4096
             + B64Value(d[3]) * 64 + B64Value(d[4])
    IN <<n \div 65536, (n \div 256) % 256, n % 256>>
       \o DecodeDigits(SubSeq(d, 5, Len(d)))
  ELSE IF Len(d) = 3 THEN
    LET n == B64Value(d[1]) * 4096 + B64Value(d[2]) * 64 + B64Value(d[3])
    IN <<n \div 1024, (n \div 4) % 256>>
  ELSE IF Len(d) = 2 THEN
    LET n == B64Value(d[1]) * 64 + B64Value(d[2])
    IN <<n \div 16>>
  ELSE <<>>

\* window.atob: the decoded binary string, or an InvalidCharacterError
Atob(s) ==
  LET d == StripPadding(StripWhitespace(s))
  IN IF Len(d) % 4 = 1 \/ \E i \in 1..Len(d) : d[i] \notin B64Chars
     THEN [ok |-> FALSE, binary |-> <<>>]
     ELSE [ok |-> TRUE, binary |-> DecodeDigits(d)]

\* bytes[i] = binary.charCodeAt(i) stored into a Uint8Array
Uint8ArrayOf(binary) == [i \in 1..Len(binary) |-> binary[i] % 256]

\* ------------------------------------------------------------------------
\* Structured values and JSON.stringify
\* ------------------------------------------------------------------------
Digits == <<"0","1","2","3","4","5","6","7","8","9">>

CharCode(c) ==
  CASE c \in {Digits[i] : i \in 1..10} -> 47 + (CHOOSE i \in 1..10 : Digits[i] = c)
    [] c = "t" -> 116
    [] c = "r" -> 114
    [] c = "u" -> 117
    [] c = "e" -> 101
    [] c = "f" -> 102
    [] c = "a" -> 97
    [] c = "l" -> 108
    [] c = "s" -> 115

\* JSON.stringify of a structured value: its text, or a TypeError (a cyclic
\* object, a BigInt)
JSONStringify(v) ==
  CASE v.kind = "number" -> [ok |-> TRUE, text |-> <<Digits[v.n + 1]>>]
    [] v.kind = "bool"   -> [ok |-> TRUE, text |-> IF v.b THEN <<"t","r","u","e">>
                                                   ELSE <<"f","a","l","s","e">>]
    [] OTHER             -> [ok |-> FALSE, text |-> <<>>]

\* the UTF-8 bytes of an ASCII text, as a Blob part
Utf8(text) == [i \in 1..Len(text) |-> CharCode(text[i])]

\* ------------------------------------------------------------------------
\* Payloads (what fs.read may resolve to) and normaliser results
\* ------------------------------------------------------------------------
Absent          == [kind |-> "absent"]
BlobPayload(b, t)   == [kind |-> "blob", bytes |-> b, type |-> t]
BufferPayload(b)    == [kind |-> "buffer", bytes |-> b]
ViewPayload(b, o, n) == [kind |-> "view", buffer |-> b, byteOffset |-> o, byteLength |-> n]
TextPayload(s)      == [kind |-> "text", chars |-> s]
NumberPayload(n)    == [kind |-> "number", n |-> n]
BoolPayload(b)      == [kind |-> "bool", b |-> b]
CyclicPayload       == [kind |-> "cyclic"]
BigIntPayload       == [kind |-> "bigint"]

NullResult      == [kind |-> "null"]
RaiseResult     == [kind |-> "raise"]
BlobResult(b, t) == [kind |-> "blob", bytes |-> b, type |-> t]

\* !data
Falsy(data) ==
  \/ data.kind = "absent"
  \/ data.kind = "text" /\ data.chars = <<>>
  \/ data.kind = "number" /\ data.n = 0
  \/ data.kind = "bool" /\ ~data.b

\* the string branch of makeBlobFromPossible (try ... catch)
DecodeString(chars, fallbackMime) ==
  LET base64 == IF Includes(chars, Marker) THEN SplitSecond(chars, Marker) ELSE chars
      binary == Atob(base64)
  IN IF binary.ok
     THEN BlobResult(Uint8ArrayOf(binary.binary), fallbackMime)
     ELSE NullResult

\* the last-resort branch of makeBlobFromPossible (try ... catch)
StringifyToBlob(data, fallbackMime) ==
  LET json == JSONStringify(data)
  IN IF json.ok THEN BlobResult(Utf8(json.text), fallbackMime) ELSE NullResult

makeBlobFromPossible(data, fallbackMime) ==
  IF Falsy(data) THEN NullResult
  ELSE IF data.kind = "blob" THEN BlobResult(data.bytes, data.type)
  ELSE IF data.kind = "buffer" THEN BlobResult(data.bytes, fallbackMime)
  ELSE IF data.kind = "view" THEN BlobResult(data.buffer, fallbackMime)
  ELSE IF data.kind = "text" THEN DecodeString(data.chars, fallbackMime)
  ELSE StringifyToBlob(data, fallbackMime)

\* ------------------------------------------------------------------------
\* Key-value records, exceptions, view texts
\* ------------------------------------------------------------------------
Loads == 1..MaxLoads
Urls  == 1..(2 * MaxLoads)

\* '' for the two url states, null for feedback and error
NoUrl == 0
NullState == "null"

NotFoundError   == "Resume not found in kv."
ReadFailedError == "Failed to read resume PDF from fs."
PdfBlobError    == "Could not create PDF blob from resume data."

\* what kv.get may resolve to: null, text that is no JSON, the JSON text
\* "null", or a serialized record (its feedback possibly missing)
KvValues ==
  {[kind |-> "null", feedback |-> "undefined"],
   [kind |-> "malformed", feedback |-> "undefined"],
   [kind |-> "jsonnull", feedback |-> "undefined"]}
  \cup {[kind |-> "record", feedback |-> f] : f \in {"F1", "undefined"}}

\* thrown values: an Error with a message, and a thrown string (no message
\* property)
Exceptions ==
  {[message |-> "boom", str |-> "Error: boom"],
   [message |-> "undefined", str |-> "oops"]}

SyntaxError == [message |-> "Unexpected token", str |-> "SyntaxError: Unexpected token"]
TypeError   == [message |-> "Cannot read properties of null", str |-> "TypeError: Cannot read properties of null"]

\* what fs.read may resolve to in the load chain
FsPayloads ==
  {Absent,
   TextPayload(<<>>),
   BlobPayload(<<37>>, "application/pdf"),
   TextPayload(<<"J","Q","=","=">>),
   TextPayload(<<"!">>),
   CyclicPayload}

NoExc == [message |-> "undefined", str |-> "-"]

\* how the model classifies what fs.read resolved to
FsClass(raw, mime) ==
  IF raw = Absent THEN "null"
  ELSE IF Falsy(raw) THEN "falsy"
  ELSE IF makeBlobFromPossible(raw, mime).kind = "blob" THEN "ok"
  ELSE "unusable"

\* variant: the not-found test is lost
KvMissing_Never(r) == FALSE

\* !resumeKV
KvMissing(r) == r.kind = "null"

\* JSON.parse(resumeKV) followed by the first property access on data
JSONParse(r) ==
  CASE r.kind = "malformed" -> [ok |-> FALSE, exc |-> SyntaxError, feedback |-> "undefined"]
    [] r.kind \in {"jsonnull", "null"} -> [ok |-> FALSE, exc |-> TypeError, feedback |-> "undefined"]
    [] OTHER                -> [ok |-> TRUE, exc |-> TypeError, feedback |-> r.feedback]

\* variant: the feedback of the record is dropped
FeedbackOrNull_AlwaysNull(f) == NullState

\* data.feedback || null
FeedbackOrNull(f) == IF f = "undefined" THEN NullState ELSE f

\* err?.message || String(err)
ErrText(e) == IF e.message \in {"undefined", ""} THEN e.str ELSE e.message

\* variant: a setter without its liveness guard
SetIfMounted_Always(m, new, old) == new

\* if (mounted) setX(new)
SetIfMounted(m, new, old) == IF m THEN new ELSE old

\* the try block of loadResume covers every throwing site of the chain
ThrowSites == {"kv.get", "JSON.parse", "fs.read(resumePath)", "createObjectURL(pdf)",
               "fs.read(imagePath)", "createObjectURL(image)", "makeBlobFromPossible"}
\* variant: the try block ends before the image section
InsideTry_NoImage(site) ==
  site \in ThrowSites \ {"fs.read(imagePath)", "createObjectURL(image)"}

InsideTry(site) == site \in ThrowSites

\* ------------------------------------------------------------------------
\* State
\* ------------------------------------------------------------------------
VARIABLES
  viewPhase,     \* "rendered" | "unmounted"
  nLoads,        \* how many times the load effect has run
  resumeUrl, imageUrl, feedback, error,   \* useState
  createdUrls,   \* createdUrls.current
  pc,            \* per load: "idle" | "kvget" | "readpdf" | "readimg" | "done"
  mounted,       \* per load: the closure's liveness flag
  data,          \* per load: data.feedback of the parsed record
  pdfUrl, imgUrl,   \* per load: newResumeUrl / newImageUrl (NoUrl: none)
  kvOut, pdfOut, imgOut,  \* per load: what kv.get / fs.read resolved to ("threw": rejected)
  fsReads,       \* per load: the paths handed to fs.read
  thrown,        \* per load: the exception raised inside loadResume, if any
  escaped,       \* per load: an exception left loadResume
  nextUrl,       \* URL registry: next fresh object URL
  revokeCalls,   \* URL registry: calls of URL.revokeObjectURL per url
  cleanupThrew,  \* an exception left an effect cleanup
  nPayload, nMime, nResult, nPhase   \* one application of the normaliser

viewVars == <<resumeUrl, imageUrl, feedback, error>>
loadVars == <<pc, mounted, data, pdfUrl, imgUrl, kvOut, pdfOut, imgOut, fsReads, thrown, escaped>>
urlVars  == <<createdUrls, nextUrl, revokeCalls, cleanupThrew>>
lifeVars == <<viewPhase, nLoads>>
normVars == <<nPayload, nMime, nResult, nPhase>>

\* the login redirect of the two page views
VARIABLES
  route,           \* "home" | "resume/1" | "resume/2" | "auth" ("none": no page shown)
  isLoading,       \* usePuterStore().isLoading
  isAuthenticated, \* usePuterStore().auth.isAuthenticated
  authEffect,      \* the redirect effect of the mounted page is due to run
  lastNavigate     \* the last navigate('/auth?next=...') and the store it saw

authVars == <<route, isLoading, isAuthenticated, authEffect, lastNavigate>>
vars == <<viewVars, loadVars, urlVars, lifeVars, normVars, authVars>>

NoNavigate == [from |-> "none", next |-> "none", isLoading |-> FALSE, isAuthenticated |-> TRUE]

AuthIdle ==
  /\ route = "none"
  /\ isLoading = FALSE
  /\ isAuthenticated = FALSE
  /\ authEffect = FALSE
  /\ lastNavigate = NoNavigate

ViewInit ==
  /\ viewPhase = "rendered"
  /\ nLoads = 0
  /\ resumeUrl = NoUrl
  /\ imageUrl = NoUrl
  /\ feedback = NullState
  /\ error = NullState
  /\ createdUrls = <<>>
  /\ pc = [l \in Loads |-> "idle"]
  /\ mounted = [l \in Loads |-> FALSE]
  /\ data = [l \in Loads |-> "undefined"]
  /\ pdfUrl = [l \in Loads |-> NoUrl]
  /\ imgUrl = [l \in Loads |-> NoUrl]
  /\ kvOut = [l \in Loads |-> "-"]
  /\ pdfOut = [l \in Loads |-> "-"]
  /\ imgOut = [l \in Loads |-> "-"]
  /\ fsReads = [l \in Loads |-> <<>>]
  /\ thrown = [l \in Loads |-> NoExc]
  /\ escaped = [l \in Loads |-> FALSE]
  /\ nextUrl = 1
  /\ revokeCalls = [u \in Urls |-> 0]
  /\ cleanupThrew = FALSE

NormIdle ==
  /\ nPayload = Absent
  /\ nMime = "application/pdf"
  /\ nResult = NullResult
  /\ nPhase = "idle"

Init == ViewInit /\ NormIdle /\ AuthIdle

\* ------------------------------------------------------------------------
\* Effect cleanup
\* ------------------------------------------------------------------------
\* for (const u of createdUrls.current) { try { revoke(u) } catch {} }
\* T: the urls whose revocation throws
\* one call of URL.revokeObjectURL(u)
RevokeOne(u, T, calls) == [calls |-> [calls EXCEPT ![u] = @ + 1], threw |-> u \in T]

\* variant: the try/catch is around the loop, not inside it
RECURSIVE RevokeLoop_NoCatch(_, _, _)
RevokeLoop_NoCatch(urls, T, calls) ==
  IF urls = <<>> THEN [calls |-> calls, thrown |-> FALSE]
  ELSE LET r == RevokeOne(Head(urls), T, calls)
       IN IF r.threw
          THEN [calls |-> r.calls, thrown |-> TRUE]
          ELSE RevokeLoop_NoCatch(Tail(urls), T, r.calls)

RECURSIVE RevokeLoop(_, _, _)
RevokeLoop(urls, T, calls) ==
  IF urls = <<>> THEN [calls |-> calls, thrown |-> FALSE]
  ELSE LET r == RevokeOne(Head(urls), T, calls)
       IN IF r.threw
          THEN RevokeLoop(Tail(urls), T, r.calls)   \* catch (e) { /* ignore */ }
          ELSE RevokeLoop(Tail(urls), T, r.calls)

\* which revocations throw: none, any single one, or all of them
ThrowingSets(urls) ==
  LET all == {urls[i] : i \in 1..Len(urls)}
  IN {{}, all} \cup {{u} : u \in all}

\* variant: the cleanup forgets to clear the liveness flag
ClearMounted_Lost(m, l) == m

\* mounted = false, in the cleanup of the closure of load l
ClearMounted(m, l) == [k \in DOMAIN m |-> IF k = l THEN FALSE ELSE m[k]]

\* the cleanup returned by the effect, for the load l it closes over
Cleanup(l, T) ==
  LET r == RevokeLoop(createdUrls, T, revokeCalls)
  IN /\ revokeCalls' = r.calls
     /\ cleanupThrew' = (cleanupThrew \/ r.thrown)
     /\ createdUrls' = IF r.thrown THEN createdUrls ELSE <<>>

\* the effect runs (first render, or id / fs / kv changed): the previous
\* cleanup, then a new closure with mounted = true that calls loadResume,
\* which runs up to its first await
RunEffect ==
  /\ viewPhase = "rendered"
  /\ nLoads < MaxLoads
  /\ LET l == nLoads + 1 IN
       /\ nLoads' = l
       /\ IF nLoads = 0
          THEN UNCHANGED <<revokeCalls, cleanupThrew, createdUrls>>
          ELSE \E T \in ThrowingSets(createdUrls) : Cleanup(nLoads, T)
       /\ mounted' = [ClearMounted(mounted, nLoads) EXCEPT ![l] = TRUE]
       /\ pc' = [pc EXCEPT ![l] = "kvget"]
  /\ UNCHANGED <<viewVars, viewPhase, nextUrl, data, pdfUrl, imgUrl, kvOut, pdfOut,
                 imgOut, fsReads, thrown, escaped, normVars, authVars>>

\* the view is torn down: the last cleanup runs
Unmount ==
  /\ viewPhase = "rendered"
  /\ nLoads >= 1
  /\ viewPhase' = "unmounted"
  /\ \E T \in ThrowingSets(createdUrls) : Cleanup(nLoads, T)
  /\ mounted' = ClearMounted(mounted, nLoads)
  /\ UNCHANGED <<viewVars, nLoads, nextUrl, pc, data, pdfUrl, imgUrl, kvOut, pdfOut,
                 imgOut, fsReads, thrown, escaped, normVars, authVars>>

\* ------------------------------------------------------------------------
\* loadResume, one action per resumption of the async chain
\* ------------------------------------------------------------------------
\* an exception e raised at a site of load l: the catch block of loadResume
Throw(l, site, e) ==
  /\ pc' = [pc EXCEPT ![l] = "done"]
  /\ thrown' = [thrown EXCEPT ![l] = e]
  /\ IF InsideTry(site)
     THEN /\ error' = SetIfMounted(mounted[l], ErrText(e), error)
          /\ UNCHANGED escaped
     ELSE /\ escaped' = [escaped EXCEPT ![l] = TRUE]
          /\ UNCHANGED error

\* kv.get rejects
KvGetThrows(l) ==
  /\ pc[l] = "kvget"
  /\ \E e \in Exceptions : Throw(l, "kv.get", e)
  /\ kvOut' = [kvOut EXCEPT ![l] = "threw"]
  /\ UNCHANGED <<resumeUrl, imageUrl, feedback, urlVars, lifeVars, normVars, authVars,
                 mounted, data, pdfUrl, imgUrl, pdfOut, imgOut, fsReads>>

\* kv.get resolves: not found, or parse the record and start reading the PDF
KvGetReturns(l) ==
  /\ pc[l] = "kvget"
  /\ \E resumeKV \in KvValues :
       /\ kvOut' = [kvOut EXCEPT ![l] = resumeKV.kind]
       /\ IF KvMissing(resumeKV) THEN
            /\ error' = SetIfMounted(mounted[l], NotFoundError, error)
            /\ pc' = [pc EXCEPT ![l] = "done"]
            /\ UNCHANGED <<data, fsReads, thrown, escaped>>
          ELSE IF ~JSONParse(resumeKV).ok THEN
            /\ Throw(l, "JSON.parse", JSONParse(resumeKV).exc)
            /\ UNCHANGED <<data, fsReads>>
          ELSE
            /\ data' = [data EXCEPT ![l] = JSONParse(resumeKV).feedback]
            /\ fsReads' = [fsReads EXCEPT ![l] = Append(@, "resumePath")]
            /\ pc' = [pc EXCEPT ![l] = "readpdf"]
            /\ UNCHANGED <<error, thrown, escaped>>
  /\ UNCHANGED <<resumeUrl, imageUrl, feedback, urlVars, lifeVars, normVars, authVars,
                 mounted, pdfUrl, imgUrl, pdfOut, imgOut>>

\* fs.read(data.resumePath) rejects
ReadPdfThrows(l) ==
  /\ pc[l] = "readpdf"
  /\ \E e \in Exceptions : Throw(l, "fs.read(resumePath)", e)
  /\ pdfOut' = [pdfOut EXCEPT ![l] = "threw"]
  /\ UNCHANGED <<resumeUrl, imageUrl, feedback, urlVars, lifeVars, normVars, authVars,
                 mounted, data, pdfUrl, imgUrl, kvOut, imgOut, fsReads>>

\* fs.read(data.resumePath) resolves: build the PDF blob and its object URL,
\* then start reading the image. createFails: URL.createObjectURL throws.
ReadPdfReturns(l) ==
  /\ pc[l] = "readpdf"
  /\ \E resumeRaw \in FsPayloads, createFails \in BOOLEAN :
       LET pdfBlob == makeBlobFromPossible(resumeRaw, "application/pdf") IN
       /\ pdfOut' = [pdfOut EXCEPT ![l] = FsClass(resumeRaw, "application/pdf")]
       /\ IF Falsy(resumeRaw) THEN
            /\ error' = SetIfMounted(mounted[l], ReadFailedError, error)
            /\ pc' = [pc EXCEPT ![l] = "done"]
            /\ UNCHANGED <<resumeUrl, createdUrls, nextUrl, pdfUrl, fsReads, thrown, escaped>>
          ELSE IF pdfBlob.kind = "raise" THEN
            /\ Throw(l, "makeBlobFromPossible", TypeError)
            /\ UNCHANGED <<resumeUrl, createdUrls, nextUrl, pdfUrl, fsReads>>
          ELSE IF pdfBlob.kind = "null" THEN
            /\ error' = SetIfMounted(mounted[l], PdfBlobError, error)
            /\ pc' = [pc EXCEPT ![l] = "done"]
            /\ UNCHANGED <<resumeUrl, createdUrls, nextUrl, pdfUrl, fsReads, thrown, escaped>>
          ELSE IF createFails THEN
            /\ Throw(l, "createObjectURL(pdf)", TypeError)
            /\ UNCHANGED <<resumeUrl, createdUrls, nextUrl, pdfUrl, fsReads>>
          ELSE
            /\ nextUrl' = nextUrl + 1
            /\ pdfUrl' = [pdfUrl EXCEPT ![l] = nextUrl]
            /\ createdUrls' = Append(createdUrls, nextUrl)
            /\ resumeUrl' = SetIfMounted(mounted[l], nextUrl, resumeUrl)
            /\ fsReads' = [fsReads EXCEPT ![l] = Append(@, "imagePath")]
            /\ pc' = [pc EXCEPT ![l] = "readimg"]
            /\ UNCHANGED <<error, thrown, escaped>>
  /\ UNCHANGED <<imageUrl, feedback, revokeCalls, cleanupThrew, lifeVars, normVars, authVars,
                 mounted, data, imgUrl, kvOut, imgOut>>

\* fs.read(data.imagePath) rejects
ReadImgThrows(l) ==
  /\ pc[l] = "readimg"
  /\ \E e \in Exceptions : Throw(l, "fs.read(imagePath)", e)
  /\ imgOut' = [imgOut EXCEPT ![l] = "threw"]
  /\ UNCHANGED <<resumeUrl, imageUrl, feedback, urlVars, lifeVars, normVars, authVars,
                 mounted, data, pdfUrl, imgUrl, kvOut, pdfOut, fsReads>>

\* variant: the two attempts in the other order
ImageBlob_JpegFirst(imageRaw) ==
  LET jpeg == makeBlobFromPossible(imageRaw, "image/jpeg")
  IN IF jpeg.kind = "null" THEN makeBlobFromPossible(imageRaw, "image/png") ELSE jpeg

\* makeBlobFromPossible(imageRaw, 'image/png') || makeBlobFromPossible(imageRaw, 'image/jpeg')
ImageBlob(imageRaw) ==
  LET png == makeBlobFromPossible(imageRaw, "image/png")
  IN IF png.kind = "null" THEN makeBlobFromPossible(imageRaw, "image/jpeg") ELSE png

\* fs.read(data.imagePath) resolves: the optional preview, then the feedback
ReadImgReturns(l) ==
  /\ pc[l] = "readimg"
  /\ \E imageRaw \in FsPayloads, createFails \in BOOLEAN :
       LET imgBlob == ImageBlob(imageRaw) IN
       /\ imgOut' = [imgOut EXCEPT ![l] = FsClass(imageRaw, "image/png")]
       /\ IF ~Falsy(imageRaw) /\ imgBlob.kind = "raise" THEN
            /\ Throw(l, "makeBlobFromPossible", TypeError)
            /\ UNCHANGED <<imageUrl, feedback, createdUrls, nextUrl, imgUrl>>
          ELSE IF ~Falsy(imageRaw) /\ imgBlob.kind = "blob" /\ createFails THEN
            /\ Throw(l, "createObjectURL(image)", TypeError)
            /\ UNCHANGED <<imageUrl, feedback, createdUrls, nextUrl, imgUrl>>
          ELSE
            /\ IF ~Falsy(imageRaw) /\ imgBlob.kind = "blob" THEN
                 /\ nextUrl' = nextUrl + 1
                 /\ imgUrl' = [imgUrl EXCEPT ![l] = nextUrl]
                 /\ createdUrls' = Append(createdUrls, nextUrl)
                 /\ imageUrl' = SetIfMounted(mounted[l], nextUrl, imageUrl)
               ELSE
                 UNCHANGED <<nextUrl, imgUrl, createdUrls, imageUrl>>
            /\ feedback' = SetIfMounted(mounted[l], FeedbackOrNull(data[l]), feedback)
            /\ error' = SetIfMounted(mounted[l], NullState, error)
            /\ pc' = [pc EXCEPT ![l] = "done"]
            /\ UNCHANGED <<thrown, escaped>>
  /\ UNCHANGED <<resumeUrl, revokeCalls, cleanupThrew, lifeVars, normVars, authVars,
                 mounted, data, pdfUrl, kvOut, pdfOut, fsReads>>

LoadStep(l) ==
  \/ KvGetThrows(l)
  \/ KvGetReturns(l)
  \/ ReadPdfThrows(l)
  \/ ReadPdfReturns(l)
  \/ ReadImgThrows(l)
  \/ ReadImgReturns(l)

Next ==
  \/ RunEffect
  \/ Unmount
  \/ \E l \in Loads : LoadStep(l)

Spec == Init /\ [][Next]_vars

\* ------------------------------------------------------------------------
\* What the view renders
\* ------------------------------------------------------------------------
\* {feedback ? <Summary .../> : <img scan gif/>}
FeedbackRendered == feedback # NullState
\* ------------------------------------------------------------------------
\* The normaliser on its own: one application to a generated payload
\* ------------------------------------------------------------------------
ByteVals == {0, 65, 255}

RECURSIVE SeqsUpTo(_, _)
SeqsUpTo(S, n) ==
  IF n = 0 THEN {<<>>}
  ELSE LET shorter == SeqsUpTo(S, n - 1)
       IN shorter \cup {Append(q, x) : q \in shorter, x \in S}

ByteSeqs == SeqsUpTo(ByteVals, MaxBytes)

\* RFC 4648 encoding of a byte sequence, with padding
RECURSIVE Base64Encode(_)
Base64Encode(b) ==
  IF Len(b) >= 3 THEN
    LET n == b[1] * 65536 + b[2] * 256 + b[3]
    IN <<B64Alphabet[(n \div 262144) + 1], B64Alphabet[((n \div 4096) % 64) + 1],
         B64Alphabet[((n \div 64) % 64) + 1], B64Alphabet[(n % 64) + 1]>>
       \o Base64Encode(SubSeq(b, 4, Len(b)))
  ELSE IF Len(b) = 2 THEN
    LET n == (b[1] * 256 + b[2]) * 4
    IN <<B64Alphabet[(n \div 4096) + 1], B64Alphabet[((n \div 64) % 64) + 1],
         B64Alphabet[(n % 64) + 1], "=">>
  ELSE IF Len(b) = 1 THEN
    LET n == b[1] * 16
    IN <<B64Alphabet[(n \div 64) + 1], B64Alphabet[(n % 64) + 1], "=", "=">>
  ELSE <<>>

DataUrlHeader == <<"d","a","t","a",":",";">> \o Marker
Headers  == {<<>>, DataUrlHeader}
\* texts that are no RFC 4648 encoding
OddBodies == {<<"!">>, <<"Q">>, <<"Q","Q">>, <<"Q","Q","=">>,
              <<"=","Q","Q","Q">>, <<"Q"," ","Q","=","=">>}
Trailers == {<<>>, Marker \o <<"!">>}

NormTexts ==
  {h \o b \o t : h \in Headers,
                 b \in {Base64Encode(x) : x \in ByteSeqs} \cup OddBodies,
                 t \in Trailers}

NormViews ==
  {ViewPayload(b, o, n) : b \in ByteSeqs \ {<<>>}, o \in 0..MaxBytes, n \in 0..MaxBytes}

NormPayloads ==
  {Absent, CyclicPayload, BigIntPayload}
  \cup {BlobPayload(b, "text/plain") : b \in ByteSeqs}
  \cup {BufferPayload(b) : b \in ByteSeqs}
  \cup {v \in NormViews : v.byteOffset + v.byteLength <= Len(v.buffer)}
  \cup {TextPayload(s) : s \in NormTexts}
  \cup {NumberPayload(n) : n \in {0, 7}}
  \cup {BoolPayload(b) : b \in BOOLEAN}

Mimes == {"application/pdf", "image/png", "image/jpeg"}

InitNorm ==
  /\ ViewInit
  /\ AuthIdle
  /\ nPayload \in NormPayloads
  /\ nMime \in Mimes
  /\ nResult = NullResult
  /\ nPhase = "ready"

Normalize ==
  /\ nPhase = "ready"
  /\ nResult' = makeBlobFromPossible(nPayload, nMime)
  /\ nPhase' = "done"
  /\ UNCHANGED <<nPayload, nMime, viewVars, loadVars, urlVars, lifeVars, authVars>>

\* the image step of loadResume applied to the payload: both attempts of
\* line 100 and the blob the || expression yields
NormalizeImage ==
  /\ nPhase = "ready"
  /\ nResult' = [png    |-> makeBlobFromPossible(nPayload, "image/png"),
                 jpeg   |-> makeBlobFromPossible(nPayload, "image/jpeg"),
                 chosen |-> ImageBlob(nPayload)]
  /\ nPhase' = "image"
  /\ UNCHANGED <<nPayload, nMime, viewVars, loadVars, urlVars, lifeVars, authVars>>

NextNorm == Normalize \/ NormalizeImage

SpecNorm == InitNorm /\ [][NextNorm]_vars

\* ------------------------------------------------------------------------
\* Properties of the load chain (specification Spec)
\* ------------------------------------------------------------------------
\* the cleanup of load l has run
CleanedUp(l) == l <= nLoads /\ ~mounted[l]

\* the object URLs load l created
UrlsOf(l) == {pdfUrl[l], imgUrl[l]} \ {NoUrl}

\* C1: every object URL a load created is revoked at most once, and is
\* revoked once the cleanup of the load that created it has run, also when
\* the load resumed only after that cleanup.
C1_RevokedByOwnCleanup ==
  \A l \in Loads : \A u \in UrlsOf(l) :
    /\ revokeCalls[u] <= 1
    /\ CleanedUp(l) => revokeCalls[u] = 1

\* C2: a step of a load whose cleanup has already run leaves resumeUrl,
\* imageUrl, feedback and error unchanged, whatever path the step takes.
C2_NoWriteAfterCleanup ==
  [][\A l \in Loads :
       (pc[l] # "idle" /\ pc'[l] # pc[l] /\ ~mounted[l]) => UNCHANGED viewVars]_vars

C2_Witness ==
  \E l \in Loads :
    /\ pc[l] = "done" /\ CleanedUp(l)
    /\ pdfOut[l] = "ok" /\ imgOut[l] = "ok"
    /\ pdfUrl[l] # NoUrl /\ revokeCalls[pdfUrl[l]] = 0
    /\ \E k \in Loads : k # l /\ pc[k] = "done" /\ thrown[k] # NoExc
    /\ resumeUrl = NoUrl /\ feedback = NullState

\* C3: a live load whose kv.get resolved to null has ended with the error
\* 'Resume not found in kv.', has handed no path to fs.read and has created
\* no object URL.
C3_KvNullNotFound ==
  \A l \in Loads :
    kvOut[l] = "null" =>
      /\ pc[l] = "done"
      /\ fsReads[l] = <<>>
      /\ UrlsOf(l) = {}
      /\ mounted[l] => error = "Resume not found in kv."

C3_Witness ==
  \E l \in Loads : kvOut[l] = "null" /\ mounted[l] /\ l = 2 /\ error = NotFoundError

\* C4: a live load whose fs.read(resumePath) resolved to null has set the
\* error 'Failed to read resume PDF from fs.', created no object URL, never
\* read imagePath, and the view renders no feedback.
C4_PdfNullNoFeedback ==
  \A l \in Loads :
    (pdfOut[l] = "null" /\ mounted[l]) =>
      /\ error = "Failed to read resume PDF from fs."
      /\ UrlsOf(l) = {}
      /\ fsReads[l] = <<"resumePath">>
      /\ ~FeedbackRendered

\* C5: a live load whose PDF handle was created and whose image read
\* resolved to null, rejected, or gave a payload that cannot be normalised,
\* has ended with feedback = the record's feedback and error = null.
C5_ImageFailureSilent ==
  \A l \in Loads :
    (/\ pc[l] = "done" /\ mounted[l]
     /\ pdfUrl[l] # NoUrl
     /\ imgOut[l] \in {"null", "threw", "unusable"}) =>
      /\ feedback = (IF data[l] = "undefined" THEN NullState ELSE data[l])
      /\ error = NullState

\* C6: when the view unmounts while a load that completed with two object
\* URLs is live, each of the two has been revoked exactly once after the
\* unmount, createdUrls is empty, and no exception left the cleanup even if
\* revoking threw.
C6_UnmountRevokesBoth ==
  [][(viewPhase = "rendered" /\ viewPhase' = "unmounted") =>
       /\ createdUrls' = <<>>
       /\ ~cleanupThrew'
       /\ \A l \in Loads :
            (pc[l] = "done" /\ mounted[l] /\ pdfUrl[l] # NoUrl /\ imgUrl[l] # NoUrl) =>
              /\ revokeCalls'[pdfUrl[l]] = 1
              /\ revokeCalls'[imgUrl[l]] = 1]_vars

C6_Witness ==
  /\ viewPhase = "unmounted"
  /\ createdUrls = <<>>
  /\ pc[nLoads] = "done" /\ pdfOut[nLoads] = "ok" /\ imgOut[nLoads] = "ok"
  /\ pdfUrl[nLoads] # NoUrl /\ imgUrl[nLoads] # NoUrl
  /\ revokeCalls[pdfUrl[nLoads]] = 1 /\ revokeCalls[imgUrl[nLoads]] = 1
  /\ resumeUrl = pdfUrl[nLoads] /\ imageUrl = imgUrl[nLoads]

\* C7: a load that is still live after kv.get gave a record and both reads
\* gave normalisable payloads (and both handles were created) has left
\* resumeUrl = its PDF handle, imageUrl = its image handle, both unrevoked,
\* feedback = the record's feedback, error = null.
C7_SuccessfulLoadState ==
  \A l \in Loads :
    (/\ pc[l] = "done" /\ mounted[l]
     /\ kvOut[l] = "record" /\ pdfOut[l] = "ok" /\ imgOut[l] = "ok"
     /\ thrown[l] = NoExc) =>
      /\ pdfUrl[l] # NoUrl /\ resumeUrl = pdfUrl[l]
      /\ imgUrl[l] # NoUrl /\ imageUrl = imgUrl[l]
      /\ pdfUrl[l] # imgUrl[l]
      /\ revokeCalls[pdfUrl[l]] = 0 /\ revokeCalls[imgUrl[l]] = 0
      /\ feedback = (IF data[l] = "undefined" THEN NullState ELSE data[l])
      /\ error = NullState

C7_Witness ==
  \E l \in Loads :
    /\ l = 2 /\ pc[l] = "done" /\ mounted[l]
    /\ kvOut[l] = "record" /\ pdfOut[l] = "ok" /\ imgOut[l] = "ok" /\ thrown[l] = NoExc
    /\ data[l] = "F1" /\ feedback = "F1"
    /\ resumeUrl = pdfUrl[l] /\ imageUrl = imgUrl[l]

\* C8: no exception leaves loadResume, and a load that is still live after an
\* exception was raised in it has set error to the exception's message, or
\* to its string form when it has no message.
C8_ExceptionsBecomeError ==
  \A l \in Loads :
    /\ ~escaped[l]
    /\ (thrown[l] # NoExc /\ mounted[l]) =>
         /\ pc[l] = "done"
         /\ error = (IF thrown[l].message = "undefined" THEN thrown[l].str
                     ELSE thrown[l].message)

C8_Witness ==
  \E l \in Loads :
    /\ mounted[l] /\ imgOut[l] = "threw"
    /\ thrown[l].message = "undefined" /\ error = "oops"
    /\ resumeUrl = pdfUrl[l] /\ pdfUrl[l] # NoUrl

\* ------------------------------------------------------------------------
\* Properties of the normaliser (specification SpecNorm)
\* ------------------------------------------------------------------------
\* the part of a text that stands for base64 data: what follows the first
\* 'base64,' marker, or the whole text when there is no marker
Base64Part(chars) ==
  LET starts == {i \in 1..(Len(chars) - Len(Marker) + 1) :
                   \A k \in 1..Len(Marker) : chars[i + k - 1] = Marker[k]}
  IN IF starts = {} THEN chars
     ELSE LET i == CHOOSE i \in starts : \A j \in starts : i <= j
          IN SubSeq(chars, i + Len(Marker), Len(chars))

\* no base64 even for a forgiving decoder: after dropping white space and
\* the padding of a text of 4n characters, a character outside the
\* alphabet remains or the length is 4n+1
MalformedBase64(s) ==
  LET w == SelectSeq(s, LAMBDA c : c # " ")
      pad == IF Len(w) % 4 = 0 /\ Len(w) > 0 /\ w[Len(w)] = "="
             THEN (IF w[Len(w) - 1] = "=" THEN 2 ELSE 1) ELSE 0
      core == SubSeq(w, 1, Len(w) - pad)
  IN Len(core) % 4 = 1 \/ \E i \in 1..Len(core) : core[i] \notin B64Chars

\* C9: makeBlobFromPossible never raises: whatever the payload the result is
\* a binary object or null, and it is null for an absent payload, for text
\* that is malformed base64, and for a structured value that cannot be
\* serialized.
C9_NeverRaises ==
  nPhase = "done" =>
    /\ nResult.kind \in {"null", "blob"}
    /\ nPayload = Absent => nResult = NullResult
    /\ (nPayload.kind = "text" /\ MalformedBase64(Base64Part(nPayload.chars)))
         => nResult = NullResult
    /\ nPayload.kind \in {"cyclic", "bigint"} => nResult = NullResult

\* C10: for every byte sequence b, the base64 text of b (the empty text for
\* the empty b), bare or after a data-URL header ending in 'base64,', is
\* normalised to a binary object with content b and the media type asked for.
C10_ValidBase64Decodes ==
  \A h \in Headers : \A b \in ByteSeqs :
    (nPhase = "done" /\ nPayload = TextPayload(h \o Base64Encode(b)))
      => nResult = BlobResult(b, nMime)

\* ------------------------------------------------------------------------
\* Superseded loads (specification Spec)
\* ------------------------------------------------------------------------
\* load l has started and has steps left
Outstanding(l) == pc[l] \in {"kvget", "readpdf", "readimg"}

\* C11 as stated: at most one load sequence is outstanding, no step of a
\* previous load is pending once a new load has started.
C11_AtMostOneOutstanding ==
  \A l \in Loads : \A k \in Loads : (Outstanding(l) /\ Outstanding(k)) => l = k

\* C11 as amended: at most one load is live (its mounted flag is true), it is
\* the load of the latest effect run of a view that is still rendered, and
\* every earlier load, outstanding or not, has had its flag cleared.
C11_AtMostOneLive ==
  \A l \in Loads :
    /\ mounted[l] => (l = nLoads /\ viewPhase = "rendered")
    /\ (l < nLoads /\ Outstanding(l)) => ~mounted[l]

C11_Witness ==
  \E l \in Loads : \E k \in Loads :
    /\ l < k /\ k = nLoads
    /\ Outstanding(l) /\ ~mounted[l]
    /\ Outstanding(k) /\ mounted[k]
    /\ pdfUrl[l] # NoUrl /\ revokeCalls[pdfUrl[l]] = 0

\* ------------------------------------------------------------------------
\* The preview section of the rendered view (specification Spec)
\* ------------------------------------------------------------------------
\* {imageUrl && resumeUrl && (<a href={resumeUrl}><img src={imageUrl}/></a>)}
PdfLinkRendered == imageUrl # NoUrl /\ resumeUrl # NoUrl

\* C12: whenever a live load has created its PDF handle and resumeUrl holds
\* it, the rendered view shows the PDF link, whether or not an image handle
\* exists.
C12_PdfLinkShown ==
  \A l \in Loads :
    (mounted[l] /\ pdfUrl[l] # NoUrl /\ resumeUrl = pdfUrl[l]) => PdfLinkRendered

\* ------------------------------------------------------------------------
\* Binary payloads (specification SpecNorm)
\* ------------------------------------------------------------------------
\* C13: an ArrayBuffer is normalised to a binary object of the media type
\* asked for whose content is the buffer, a typed view to one whose content
\* is the bytes of its byteOffset / byteLength window.
C13_BinaryContentKept ==
  nPhase = "done" =>
    /\ nPayload.kind = "buffer" => nResult = BlobResult(nPayload.bytes, nMime)
    /\ nPayload.kind = "view" =>
         nResult = BlobResult(SubSeq(nPayload.buffer, nPayload.byteOffset + 1,
                                     nPayload.byteOffset + nPayload.byteLength), nMime)

\* ------------------------------------------------------------------------
\* The login redirect of Home and Resume (specification SpecAuth)
\* ------------------------------------------------------------------------
Pages == {"home", "resume/1", "resume/2"}

\* the ?next= target each page passes to the login route
NextOf(page) == IF page = "home" THEN "/" ELSE "/" \o page

\* navigate(`/auth?next=...`) issued by the page shown
Navigate(page) ==
  /\ route' = "auth"
  /\ authEffect' = FALSE
  /\ lastNavigate' = [from |-> page, next |-> NextOf(page),
                      isLoading |-> isLoading, isAuthenticated |-> isAuthenticated]

\* Home: useEffect(() => { if (!auth.isAuthenticated) navigate('/auth?next=/') },
\* [auth.isAuthenticated])
AuthEffectHome ==
  /\ route = "home"
  /\ authEffect
  /\ IF ~isAuthenticated
     THEN Navigate("home")
     ELSE authEffect' = FALSE /\ UNCHANGED <<route, lastNavigate>>
  /\ UNCHANGED <<isLoading, isAuthenticated, viewVars, loadVars, urlVars, lifeVars, normVars>>

\* Resume: useEffect(() => { if (!isLoading && !auth.isAuthenticated)
\* navigate(`/auth?next=/resume/${id}`) }, [isLoading, auth, navigate, id])
AuthEffectResume ==
  /\ route \in Pages \ {"home"}
  /\ authEffect
  /\ IF ~isLoading /\ ~isAuthenticated
     THEN Navigate(route)
     ELSE authEffect' = FALSE /\ UNCHANGED <<route, lastNavigate>>
  /\ UNCHANGED <<isLoading, isAuthenticated, viewVars, loadVars, urlVars, lifeVars, normVars>>

\* the store changes isLoading or auth; the effect of the page shown is due
\* again when one of its dependencies changed (Home: auth.isAuthenticated,
\* Resume: isLoading and auth)
StoreChange ==
  /\ \E l \in BOOLEAN, a \in BOOLEAN :
       /\ <<l, a>> # <<isLoading, isAuthenticated>>
       /\ isLoading' = l
       /\ isAuthenticated' = a
       /\ authEffect' = (\/ authEffect
                         \/ route = "home" /\ a # isAuthenticated
                         \/ route \in Pages \ {"home"})
  /\ UNCHANGED <<route, lastNavigate, viewVars, loadVars, urlVars, lifeVars, normVars>>

\* the router shows another page (a link, or the login route sending the user
\* on to its next target): the page mounts and its effect is due
OpenPage ==
  /\ \E page \in Pages :
       /\ page # route
       /\ route' = page
  /\ authEffect' = TRUE
  /\ UNCHANGED <<isLoading, isAuthenticated, lastNavigate, viewVars, loadVars, urlVars,
                 lifeVars, normVars>>

InitAuth ==
  /\ ViewInit
  /\ NormIdle
  /\ route \in Pages
  /\ isLoading \in BOOLEAN
  /\ isAuthenticated \in BOOLEAN
  /\ authEffect = TRUE
  /\ lastNavigate = NoNavigate

NextAuth ==
  \/ AuthEffectHome
  \/ AuthEffectResume
  \/ StoreChange
  \/ OpenPage

SpecAuth == InitAuth /\ [][NextAuth]_vars

\* C14: every navigate to the login route, from Home or from Resume, was
\* issued in a state where isLoading was false and auth.isAuthenticated was
\* false.
C14_NoRedirectWhileLoading ==
  lastNavigate # NoNavigate =>
    /\ ~lastNavigate.isLoading
    /\ ~lastNavigate.isAuthenticated

\* ------------------------------------------------------------------------
\* Handles held by the view state (specification Spec)
\* ------------------------------------------------------------------------
\* C15: while the view is rendered, a non-empty resumeUrl or imageUrl is an
\* object URL that has not been revoked.
C15_ViewUrlsNotRevoked ==
  viewPhase = "rendered" =>
    /\ resumeUrl # NoUrl => revokeCalls[resumeUrl] = 0
    /\ imageUrl # NoUrl => revokeCalls[imageUrl] = 0

\* ------------------------------------------------------------------------
\* The two image attempts (specification SpecNorm)
\* ------------------------------------------------------------------------
\* C16: for a payload that is not null the 'image/png' attempt is null exactly
\* when the 'image/jpeg' attempt is; the blob the image step uses is one the
\* 'image/png' attempt produced, and when the payload is no Blob it is tagged
\* 'image/png'.
C16_JpegAttemptAddsNothing ==
  (nPhase = "image" /\ nPayload # Absent) =>
    /\ nResult.png.kind = "null" <=> nResult.jpeg.kind = "null"
    /\ nResult.chosen.kind = "blob" => nResult.chosen = nResult.png
    /\ (nResult.chosen.kind = "blob" /\ nPayload.kind # "blob")
         => nResult.chosen.type = "image/png"

C16_Witness ==
  /\ nPhase = "image"
  /\ nPayload.kind = "text"
  /\ nResult.chosen = BlobResult(<<65>>, "image/png")
  /\ nResult.jpeg = BlobResult(<<65>>, "image/jpeg")

====
